---- MODULE Spec2Model ----
(***************************************************************************)
(* Model of src/llm.py (class LLM): construction from a configuration,     *)
(* generate_report and its two provider paths, _generate_report_openai     *)
(* and _generate_report_ollama.                                            *)
(*                                                                         *)
(* Python values are modelled as follows.                                  *)
(*  - config.llm_model_type is a sequence of one-character strings, so     *)
(*    that str.lower() is computed character by character.                 *)
(*  - decoded JSON values and the attributes of the SDK's response object  *)
(*    are tagged records: Null, Str(s), Obj(f) with f a function from the  *)
(*    keys that are present to their values (Empty is the dict {}).        *)
(*  - an exception is a record [type, msg]; the result of a step that may  *)
(*    raise is [raises |-> TRUE, exc |-> e] or [raises |-> FALSE, ...].    *)
(*  - an outbound call is one invocation of client.chat.completions.create *)
(*    or of requests.post; what the backend does with it is the input env. *)
(***************************************************************************)
EXTENDS Integers, Sequences, FiniteSets, TLC

VARIABLES config, llm, last, wire, nreports

vars == <<config, llm, last, wire, nreports>>

(* ------------------------------ bounds -------------------------------- *)

\* number of generate_report calls made on the one orchestrator
MaxReports == 3

\* largest number of choices in a completion returned by the cloud backend
MaxChoices == 2

(* --------------------------- Python values ---------------------------- *)

Null == [t |-> "null"]

Str(s) == [t |-> "str", v |-> s]

Obj(f) == [t |-> "obj", f |-> f]

Empty == [k \in {} |-> Null]

\* the body of an HTTP response that is not JSON at all
NotJSON == [t |-> "notjson"]

Exc(type, msg) == [type |-> type, msg |-> msg]

Raises(e) == [raises |-> TRUE, exc |-> e]

Value(v) == [raises |-> FALSE, value |-> v]

Return(v) == [kind |-> "return", value |-> v]

Raise(e) == [kind |-> "raise", exc |-> e]

\* bool(x) of a decoded value: None and "" and {} are false
Truthy(x) ==
  CASE x.t = "null" -> FALSE
    [] x.t = "str" -> x.v # ""
    [] x.t = "obj" -> DOMAIN x.f # {}
    [] OTHER -> TRUE

\* d.get(k, default); on a value that is not a dict Python raises
\* AttributeError ('str' / 'NoneType' object has no attribute 'get')
dict_get(d, k, default) ==
  IF d.t # "obj" THEN Raises(Exc("AttributeError", "no attribute get"))
  ELSE IF k \in DOMAIN d.f THEN Value(d.f[k])
  ELSE Value(default)

(* ------------------------------ str.lower ----------------------------- *)

Upper == <<"A", "B", "C", "D", "E", "F", "G", "H", "I", "J", "K", "L", "M",
           "N", "O", "P", "Q", "R", "S", "T", "U", "V", "W", "X", "Y", "Z">>

Lowercase == <<"a", "b", "c", "d", "e", "f", "g", "h", "i", "j", "k", "l", "m",
           "n", "o", "p", "q", "r", "s", "t", "u", "v", "w", "x", "y", "z">>

LowerChar(c) ==
  IF \E i \in 1..Len(Upper) : Upper[i] = c
  THEN Lowercase[CHOOSE i \in 1..Len(Upper) : Upper[i] = c]
  ELSE c

lower(s) == [i \in 1..Len(s) |-> LowerChar(s[i])]

OPENAI == <<"o", "p", "e", "n", "a", "i">>

OLLAMA == <<"o", "l", "l", "a", "m", "a">>

(* --------------------------- configurations --------------------------- *)

ModelTypes ==
  { OPENAI, OLLAMA,
    <<"O", "p", "e", "n", "A", "I">>,
    <<"O", "L", "L", "A", "M", "A">>,
    <<"a", "z", "u", "r", "e">>,
    <<>> }

ApiUrls == {"http://localhost:11434/api/chat", "http://gpu-box:11434/api/chat"}

Configs ==
  [ llm_model_type : ModelTypes,
    ollama_api_url : ApiUrls,
    openai_model_name : {"gpt-4o-mini"},
    ollama_model_name : {"llama3"} ]

\* attribute that __init__ did not set
Unset == "<unset>"

NoLLM == [exists |-> FALSE, model |-> <<>>, client |-> FALSE, api_url |-> Unset]

(* ------------------------------- logging ------------------------------ *)

LogLine(level, event, detail) == [level |-> level, event |-> event, detail |-> detail]

(* ------------------------------ __init__ ------------------------------ *)

\* faulty variant of LLM_init: the final else branch keeps the object
LLM_init_keeps_object(cfg) ==
  LET model == lower(cfg.llm_model_type) IN
  [self |-> [exists |-> TRUE, model |-> model, client |-> model = OPENAI,
             api_url |-> IF model = OPENAI THEN Unset ELSE cfg.ollama_api_url],
   outcome |-> Return(Null), logs |-> <<>>]

\* LLM.__init__(config): the object and the outcome of the constructor
LLM_init(cfg) ==
  LET model == lower(cfg.llm_model_type) IN
  IF model = OPENAI
  THEN [self |-> [exists |-> TRUE, model |-> model, client |-> TRUE, api_url |-> Unset],
        outcome |-> Return(Null), logs |-> <<>>]
  ELSE IF model = OLLAMA
  THEN [self |-> [exists |-> TRUE, model |-> model, client |-> FALSE,
                  api_url |-> cfg.ollama_api_url],
        outcome |-> Return(Null), logs |-> <<>>]
  ELSE [self |-> NoLLM,
        outcome |-> Raise(Exc("ValueError", "unsupported model type")),
        logs |-> <<LogLine("error", "unsupported model type", Str("model"))>>]

(* ------------------------- the message list --------------------------- *)

SystemPrompts == {"sys", ""}

UserContents == {"user", ""}

\* faulty variant of build_messages: the user message is put first
build_messages_user_first(system_prompt, user_content) ==
  << [role |-> "user", content |-> user_content],
     [role |-> "system", content |-> system_prompt] >>

\* generate_report: messages = [{"role": "system", ...}, {"role": "user", ...}]
build_messages(system_prompt, user_content) ==
  << [role |-> "system", content |-> system_prompt],
     [role |-> "user", content |-> user_content] >>

(* ----------------------- what the backends answer ---------------------- *)

Refused == [transport |-> "refused"]

Answer(status, body) == [transport |-> "ok", status |-> status, body |-> body]

Is2xx(status) == status >= 200 /\ status < 300

CloudContents == {Str("X"), Str("Z"), Str(""), Null}

Choice(c) == [message |-> [content |-> c]]

Completions ==
  { [choices |-> ch] :
      ch \in UNION { [1..n -> {Choice(c) : c \in CloudContents}] : n \in 0..MaxChoices } }

CloudErrorBody == Obj([error |-> Str("rate limit")])

OpenAIEnvs ==
  {Refused}
    \cup {Answer(200, b) : b \in Completions}
    \cup {Answer(st, CloudErrorBody) : st \in {429, 500}}

LocalBodies ==
  { NotJSON,
    Str("oops"),
    Obj(Empty),
    Obj([error |-> Str("model not found")]),
    Obj([message |-> Null]),
    Obj([message |-> Str("hi")]),
    Obj([message |-> Obj(Empty)]),
    Obj([message |-> Obj([content |-> Null])]),
    Obj([message |-> Obj([content |-> Str("")])]),
    Obj([message |-> Obj([content |-> Str("Y")])]),
    Obj([message |-> Obj([role |-> Str("assistant"), content |-> Str("## Report")])]) }

OllamaEnvs ==
  {Refused} \cup {Answer(st, b) : st \in {200, 404, 500}, b \in LocalBodies}

(* ------------------------ except Exception as e ------------------------ *)

\* faulty variant of except_Exception: the error is swallowed, None is returned
except_Exception_swallow(e, calls, logs) ==
  [outcome |-> Return(Null), calls |-> calls, logs |-> logs]

\* faulty variant of except_Exception: raise ValueError(str(e)) instead of raise
except_Exception_wrap(e, calls, logs) ==
  [ outcome |-> Raise(Exc("ValueError", e.msg)),
    calls |-> calls,
    logs |-> Append(logs, LogLine("error", "generate failed", e)) ]

\* LOG.error(...e...) ; raise
except_Exception(e, calls, logs) ==
  [ outcome |-> Raise(e),
    calls |-> calls,
    logs |-> Append(logs, LogLine("error", "generate failed", e)) ]

(* ----------------------- _generate_report_openai ----------------------- *)

\* self.client.chat.completions.create(model=..., messages=messages): the SDK
\* raises APIConnectionError when the transport fails and APIStatusError on a
\* status that is not 2xx, and otherwise returns the parsed completion
openai_create(env) ==
  IF env.transport # "ok" THEN Raises(Exc("APIConnectionError", "connection error"))
  ELSE IF ~Is2xx(env.status) THEN Raises(Exc("APIStatusError", "error status"))
  ELSE Value(env.body)

\* faulty variant of first_choice_content: response.choices[-1]
first_choice_content_last(response) ==
  IF Len(response.choices) = 0
  THEN Raises(Exc("IndexError", "list index out of range"))
  ELSE Value(response.choices[Len(response.choices)].message.content)

\* response.choices[0].message.content
first_choice_content(response) ==
  IF Len(response.choices) = 0
  THEN Raises(Exc("IndexError", "list index out of range"))
  ELSE Value(response.choices[1].message.content)

generate_report_openai(self, cfg, messages, env) ==
  LET logs0 == <<LogLine("info", "openai", Str(cfg.openai_model_name))>>
      call == [adapter |-> "openai", model |-> cfg.openai_model_name,
               messages |-> messages]
      response == openai_create(env)
  IN IF response.raises THEN except_Exception(response.exc, <<call>>, logs0)
     ELSE LET logs1 == Append(logs0, LogLine("debug", "response", response.value))
              content == first_choice_content(response.value)
          IN IF content.raises THEN except_Exception(content.exc, <<call>>, logs1)
             ELSE [outcome |-> Return(content.value), calls |-> <<call>>, logs |-> logs1]

(* ----------------------- _generate_report_ollama ----------------------- *)

max_tokens == 4000

\* requests.post(self.api_url, json=payload): raises only when the transport
\* fails; a response with any status code is returned
requests_post(env) ==
  IF env.transport # "ok" THEN Raises(Exc("ConnectionError", "connection refused"))
  ELSE Value([status_code |-> env.status, body |-> env.body])

\* response.json()
response_json(response) ==
  IF response.body = NotJSON
  THEN Raises(Exc("JSONDecodeError", "expecting value"))
  ELSE Value(response.body)

\* faulty variant of extract_message_content: the second .get is missing
extract_message_content_message_only(response_data) ==
  dict_get(response_data, "message", Obj(Empty))

\* response_data.get("message", {}).get("content", None)
extract_message_content(response_data) ==
  LET message == dict_get(response_data, "message", Obj(Empty)) IN
  IF message.raises THEN message
  ELSE dict_get(message.value, "content", Null)

generate_report_ollama(self, cfg, messages, env) ==
  LET logs0 == <<LogLine("info", "ollama", Str(cfg.ollama_model_name))>>
      payload == [model |-> cfg.ollama_model_name, messages |-> messages,
                  max_tokens |-> max_tokens, temperature |-> "0.7", stream |-> FALSE]
      call == [adapter |-> "ollama", url |-> self.api_url, payload |-> payload]
      posted == requests_post(env)
  IN IF posted.raises THEN except_Exception(posted.exc, <<call>>, logs0)
     ELSE LET response_data == response_json(posted.value) IN
       IF response_data.raises THEN except_Exception(response_data.exc, <<call>>, logs0)
       ELSE LET logs1 == Append(logs0, LogLine("debug", "response", response_data.value))
                message_content == extract_message_content(response_data.value)
            IN IF message_content.raises
               THEN except_Exception(message_content.exc, <<call>>, logs1)
               ELSE IF Truthy(message_content.value)
               THEN [outcome |-> Return(message_content.value), calls |-> <<call>>,
                     logs |-> logs1]
               ELSE except_Exception(
                      Exc("ValueError", "invalid Ollama response structure"),
                      <<call>>,
                      Append(logs1, LogLine("error", "cannot extract content", Null)))

(* --------------------------- generate_report --------------------------- *)

\* faulty variant of dispatch: the first test is always true
dispatch_always_openai(self) == "openai"

\* the branch of generate_report taken for self.model
dispatch(self) ==
  IF self.model = OPENAI THEN "openai"
  ELSE IF self.model = OLLAMA THEN "ollama"
  ELSE "unsupported"

\* the answers the backend reached by that branch can give
EnvsFor(branch) ==
  IF branch = "openai" THEN OpenAIEnvs
  ELSE IF branch = "ollama" THEN OllamaEnvs
  ELSE {Refused}

generate_report(self, cfg, system_prompt, user_content, env) ==
  LET messages == build_messages(system_prompt, user_content)
      branch == dispatch(self)
  IN IF branch = "openai" THEN generate_report_openai(self, cfg, messages, env)
     ELSE IF branch = "ollama" THEN generate_report_ollama(self, cfg, messages, env)
     ELSE [outcome |-> Raise(Exc("ValueError", "unsupported model type")),
           calls |-> <<>>, logs |-> <<>>]

(* ------------------------------- machine ------------------------------- *)

NoOp ==
  [op |-> "none", system_prompt |-> "", user_content |-> "", env |-> Refused,
   outcome |-> Return(Null), calls |-> <<>>, logs |-> <<>>]

Init ==
  /\ config \in Configs
  /\ llm = NoLLM
  /\ last = NoOp
  /\ wire = <<>>
  /\ nreports = 0

\* llm = LLM(config)
Construct ==
  /\ ~llm.exists
  /\ last.op = "none"
  /\ LET r == LLM_init(config) IN
       /\ llm' = r.self
       /\ last' = [NoOp EXCEPT !.op = "init", !.outcome = r.outcome, !.logs = r.logs]
  /\ UNCHANGED <<config, wire, nreports>>

\* llm.generate_report(system_prompt, user_content)
GenerateReport ==
  /\ llm.exists
  /\ nreports < MaxReports
  /\ \E system_prompt \in SystemPrompts, user_content \in UserContents :
       \E env \in EnvsFor(dispatch(llm)) :
         LET r == generate_report(llm, config, system_prompt, user_content, env) IN
           /\ last' = [op |-> "generate_report", system_prompt |-> system_prompt,
                       user_content |-> user_content, env |-> env,
                       outcome |-> r.outcome, calls |-> r.calls, logs |-> r.logs]
           /\ wire' = wire \o r.calls
  /\ nreports' = nreports + 1
  /\ UNCHANGED <<config, llm>>

Next == Construct \/ GenerateReport

Spec == Init /\ [][Next]_vars

TypeOK ==
  /\ config \in Configs
  /\ llm.exists \in BOOLEAN
  /\ nreports \in 0..MaxReports
  /\ Len(wire) <= MaxReports

(* ============================ properties ============================== *)

\* the provider kind the configuration names, as __init__ reads it
ConfiguredKind ==
  IF lower(config.llm_model_type) = OPENAI THEN "openai"
  ELSE IF lower(config.llm_model_type) = OLLAMA THEN "ollama"
  ELSE "unregistered"

Generated == last.op = "generate_report"

Returned == last.outcome.kind = "return"

Raised == last.outcome.kind = "raise"

\* the error kinds of the specification, in terms of the Python exceptions
IsConfigurationError(e) == e.type = "ValueError" /\ e.msg = "unsupported model type"

IsMalformedResponseError(e) ==
  e.type = "ValueError" /\ e.msg = "invalid Ollama response structure"

IsProviderCallError(e) ==
  e.type \in {"ConnectionError", "HTTPError", "JSONDecodeError",
              "APIConnectionError", "APIStatusError"}

\* the messages a call carries on the wire
WireMessages(call) ==
  IF call.adapter = "openai" THEN call.messages ELSE call.payload.messages

\* the call addresses the adapter, endpoint and model the configuration names
ToConfigured(call) ==
  /\ call.adapter = ConfiguredKind
  /\ call.adapter = "openai" => call.model = config.openai_model_name
  /\ call.adapter = "ollama" =>
       /\ call.url = config.ollama_api_url
       /\ call.payload.model = config.ollama_model_name

\* the backend answered with a success status and a body of the expected
\* shape: a first choice (cloud), a message object with a content key (local)
SuccessfulResponse ==
  /\ last.env.transport = "ok"
  /\ Is2xx(last.env.status)
  /\ ConfiguredKind = "openai" => Len(last.env.body.choices) >= 1
  /\ ConfiguredKind = "ollama" =>
       /\ last.env.body.t = "obj"
       /\ "message" \in DOMAIN last.env.body.f
       /\ last.env.body.f["message"].t = "obj"
       /\ "content" \in DOMAIN last.env.body.f["message"].f

\* C1: for a non-empty user_content and a valid provider, generate_report
\* returns a non-empty string and makes exactly one outbound call to the
\* configured adapter, whatever successful response the backend gives.
C1_NonEmptyReportOneCall ==
  (Generated /\ last.user_content # "" /\ SuccessfulResponse) =>
     /\ Returned
     /\ last.outcome.value.t = "str"
     /\ last.outcome.value.v # ""
     /\ Len(last.calls) = 1
     /\ ToConfigured(last.calls[1])

\* C2: for an empty user_content, generate_report fails with
\* EmptyActivityError and makes no outbound call.
C2_EmptyContentRejected ==
  (Generated /\ last.user_content = "") =>
     /\ Raised
     /\ last.outcome.exc.type = "EmptyActivityError"
     /\ last.calls = <<>>

\* C3: when the configuration names a kind that is neither openai nor ollama,
\* construction raises the configuration error, no orchestrator object
\* exists afterwards, and no outbound call is ever made.
C3_UnknownKindNotConstructible ==
  (last.op # "none" /\ ConfiguredKind = "unregistered") =>
     /\ last.op = "init"
     /\ Raised
     /\ IsConfigurationError(last.outcome.exc)
     /\ ~llm.exists
     /\ wire = <<>>

C3_Witness ==
  /\ last.op = "init"
  /\ Raised
  /\ config.llm_model_type = <<"a", "z", "u", "r", "e">>

\* the exception type the backend call itself fails with, "" when it succeeds
BackendFailure ==
  IF last.env.transport # "ok"
  THEN (IF ConfiguredKind = "openai" THEN "APIConnectionError" ELSE "ConnectionError")
  ELSE IF ConfiguredKind = "openai" /\ ~Is2xx(last.env.status) THEN "APIStatusError"
  ELSE ""

\* C4: a generate_report call whose adapter call fails makes exactly one
\* outbound call, to the configured adapter, logs the failure with its cause
\* as the last log line, and raises that same error; every failing call
\* (whatever raised) makes one call only and ends with the error logged.
C4_NoRetryNoFallback ==
  Generated =>
     /\ BackendFailure # "" =>
          /\ Raised
          /\ last.outcome.exc.type = BackendFailure
     /\ Raised =>
          /\ Len(last.calls) = 1
          /\ ToConfigured(last.calls[1])
          /\ last.logs # <<>>
          /\ last.logs[Len(last.logs)].level = "error"
          /\ last.logs[Len(last.logs)].detail = last.outcome.exc

C4_Witness ==
  /\ Generated
  /\ BackendFailure # ""
  /\ Raised
  /\ Len(last.calls) = 1

\* C5: the local adapter, on a decoded response {"message":{"content":"Y"}},
\* returns exactly "Y"; on {"message":{}} it fails with the malformed-response
\* error.
C5_LocalExtraction ==
  (Generated /\ ConfiguredKind = "ollama" /\ last.env.transport = "ok"
     /\ Is2xx(last.env.status)) =>
     /\ last.env.body = Obj([message |-> Obj([content |-> Str("Y")])]) =>
          last.outcome = Return(Str("Y"))
     /\ last.env.body = Obj([message |-> Obj(Empty)]) =>
          (Raised /\ IsMalformedResponseError(last.outcome.exc))

C5_Witness ==
  /\ Generated
  /\ ConfiguredKind = "ollama"
  /\ last.env = Answer(200, Obj([message |-> Obj([content |-> Str("Y")])]))
  /\ last.outcome = Return(Str("Y"))

\* the body is a JSON object without message.content
MissingContent(body) ==
  /\ body.t = "obj"
  /\ \/ "message" \notin DOMAIN body.f
     \/ /\ body.f["message"].t = "obj"
        /\ "content" \notin DOMAIN body.f["message"].f

\* C6: in the local adapter a transport failure raises a provider-call error
\* and a reachable backend answering without message.content raises the
\* malformed-response error; the two differ in exception type.
C6_LocalFailureKindsDistinct ==
  (Generated /\ ConfiguredKind = "ollama") =>
     /\ last.env.transport # "ok" =>
          /\ Raised
          /\ IsProviderCallError(last.outcome.exc)
          /\ ~IsMalformedResponseError(last.outcome.exc)
          /\ last.outcome.exc.type # "ValueError"
     /\ (last.env.transport = "ok" /\ MissingContent(last.env.body)) =>
          /\ Raised
          /\ IsMalformedResponseError(last.outcome.exc)
          /\ ~IsProviderCallError(last.outcome.exc)

C6_Witness ==
  /\ Generated
  /\ ConfiguredKind = "ollama"
  /\ last.env.transport # "ok"
  /\ Raised
  /\ last.outcome.exc.type = "ConnectionError"

\* C7: a response with a non-success HTTP status surfaces as a provider-call
\* error from either adapter; the local adapter never returns a report (nor
\* raises the malformed-response error) for such a response.
C7_NonSuccessStatusIsProviderCallError ==
  (Generated /\ last.env.transport = "ok" /\ ~Is2xx(last.env.status)) =>
     /\ Raised
     /\ IsProviderCallError(last.outcome.exc)

\* C8: every call of a generate_report carries exactly two messages, the
\* system message with system_prompt first and the user message with
\* user_content second, both verbatim.
C8_TwoMessagesInOrder ==
  Generated =>
     \A i \in 1..Len(last.calls) :
        WireMessages(last.calls[i]) =
          << [role |-> "system", content |-> last.system_prompt],
             [role |-> "user", content |-> last.user_content] >>

C8_Witness ==
  /\ Generated
  /\ Len(last.calls) = 1
  /\ last.system_prompt = "sys"
  /\ last.user_content = "user"
  /\ WireMessages(last.calls[1])[1].content = "sys"

\* C9: the cloud adapter, on a successful completion, returns exactly the
\* message content of the first choice.
C9_CloudFirstChoice ==
  (Generated /\ ConfiguredKind = "openai" /\ last.env.transport = "ok"
     /\ Is2xx(last.env.status) /\ Len(last.env.body.choices) >= 1) =>
     last.outcome = Return(last.env.body.choices[1].message.content)

C9_Witness ==
  /\ Generated
  /\ ConfiguredKind = "openai"
  /\ last.env = Answer(200, [choices |-> <<Choice(Str("X")), Choice(Str("Z"))>>])
  /\ last.outcome = Return(Str("X"))

\* C10: once the orchestrator exists, no step changes the object or the
\* configuration, and every outbound call made so far went to the adapter,
\* endpoint and model selected from the configuration at construction.
C10_ProviderFixed ==
  [][ llm.exists =>
        /\ llm' = llm
        /\ config' = config
        /\ \A i \in 1..Len(wire') : ToConfigured(wire'[i]) ]_vars

C10_Witness ==
  /\ llm.exists
  /\ nreports >= 2
  /\ Len(wire) >= 2
  /\ Raised
  /\ ConfiguredKind = "ollama"
  /\ config.llm_model_type # OLLAMA

====
